---- MODULE Spec2Model ----
(***************************************************************************)
(* Local-first persistence store (src/src/lib/storage.ts), the upload      *)
(* modal's ingestion loop and notebook commit                              *)
(* (src/notebooklm-clone/src/components/source-upload-modal.tsx), the      *)
(* dashboard (src/notebooklm-clone/src/app/page.tsx) and the notebook      *)
(* page's chat flow (src/unnamed/part_002).                                *)
(*                                                                         *)
(* Date.now() is a non-decreasing millisecond clock `now`; two calls may   *)
(* fall in the same millisecond.  generateId()/generateFileId() return     *)
(* `${Date.now()}_${random}`; the random suffix is modelled as making      *)
(* every generated id fresh (counters nextId / nextFileId).                *)
(***************************************************************************)
EXTENDS Integers, Sequences, FiniteSets, TLC

\* ------------------------------------------------------------------ bounds
MaxIds == 2
MaxTime == 2
MaxChat == 2
MaxFiles == 2
MaxMsgs == 2
MaxCommitRuns == 2
MaxFileIds == 2
MaxExchanges == 2
MaxPrior == 7

Titles == {"", "t"}
Contents == {"q", "r"}
SettingsValues == {"{}", "s"}
IdbEnvs == {"ok", "absent", "openfail"}

Ids == 1..MaxIds
\* notebook ids a caller passes to the chat and file operations
NotebookKeys == {1, 2}
FileIds == 1..MaxFiles

VARIABLES
    idbEnv,      \* window.indexedDB: "ok", "absent" (undefined) or "openfail" (open() errors)
    db,          \* StorageManager.db # null
    notebooks,   \* object store STORES.NOTEBOOKS, keyPath id
    files,       \* object store STORES.FILES, keyPath id, index notebookId
    chats,       \* localStorage[STORAGE_KEYS.CHATS]: notebook id -> message list
    settings,    \* localStorage[STORAGE_KEYS.SETTINGS]
    now,         \* Date.now()
    nextId,      \* next notebook id generateId() returns
    nextMsgId,   \* next message id generateId() returns
    last,        \* the store operation that ran last, its arguments and its outcome
    \* dashboard (app/page.tsx)
    dashNotebooks,  \* useState notebooks: the ids of the listed notebooks, in order
    \* upload modal (source-upload-modal.tsx)
    uploadedFiles,  \* useState uploadedFiles: FileUploadStatus[]
    isProcessing,   \* useState isProcessing
    step,           \* useState step
    notebookTitle,  \* useState notebookTitle
    processRuns,    \* the processFiles() calls in flight
    commitRuns,     \* the modal's createNotebook() calls in flight
    nextFileId,     \* next id generateFileId() returns
    lastCommit,     \* the modal createNotebook() call that ended last
    \* notebook page (app/notebook/[id]/page.tsx)
    notebook,              \* useState notebook: the id of the loaded record, 0 for null
    messages,              \* useState messages
    isGeneratingResponse,  \* useState isGeneratingResponse
    sendRuns,              \* the handleSendMessage() calls in flight
    notebookSources,       \* notebook.sources: the file records loadNotebook read
    selectedSources,       \* useState selectedSources: file ids
    \* the AI client (gemini-ai.ts) and generateFileSummary
    lastCall,              \* the summarizer or chat call that returned last
    \* callers of the store
    fileOwner,   \* file id -> the notebook id the last resolved saveFile named for it
    addRuns,     \* addChatMessage calls of execution contexts, between their steps
    heldNotebooks  \* notebook id -> the record object a caller of the store holds

modalVars == <<uploadedFiles, isProcessing, step, notebookTitle, processRuns, commitRuns,
               nextFileId, lastCommit>>

pageVars == <<notebook, messages, isGeneratingResponse, sendRuns, notebookSources,
              selectedSources>>

storeVars == <<idbEnv, db, notebooks, files, chats, settings, now, nextId, nextMsgId, last>>

auxVars == <<fileOwner, addRuns, heldNotebooks>>

\* ------------------------------------------------------------ store helpers
NullNotebook == [id |-> 0, title |-> "", sources |-> <<>>, createdAt |-> 0, updatedAt |-> 0]

NoMsg == [id |-> 0, content |-> "", isUser |-> FALSE, timestamp |-> 0, sources |-> {}]

\* last: op, the notebook id and title passed, the outcome (res), the notebook
\* record or message built (nb, msg), and hit: whether the write went through
\* (for deleteNotebook: whether the record was there), list: the records
\* getAllNotebooks returned, again: whether the call before it was a resolved
\* getAllNotebooks too, files: the records getFilesByNotebook returned, before:
\* the chat list that was stored when an overlapped addChatMessage wrote,
\* missing: whether the store held no record of the id when updateNotebook was
\* called
NoOp == [op |-> "none", id |-> 0, title |-> "", res |-> "none", hit |-> FALSE,
         nb |-> NullNotebook, msg |-> NoMsg, list |-> <<>>, again |-> FALSE,
         files |-> {}, before |-> <<>>, missing |-> FALSE]

\* `if (!this.db) await this.initIndexedDB()` rejects when open() errors
InitRejects == ~db /\ idbEnv = "openfail"

\* this.db after `if (!this.db) await this.initIndexedDB()`
DbOpen == db \/ idbEnv = "ok"

IsPrefix(s, t) == Len(s) <= Len(t) /\ SubSeq(t, 1, Len(s)) = s

Remove(f, k) == [x \in DOMAIN f \ {k} |-> f[x]]

\* getFromIndexedDB(STORES.NOTEBOOKS, id): request.result || null
GetNotebook(id) ==
    IF DbOpen /\ id \in DOMAIN notebooks THEN notebooks[id] ELSE NullNotebook

\* getFilesByNotebook: index.getAll(notebookId)
GetFilesByNotebook(nid) ==
    IF DbOpen THEN {files[f] : f \in {g \in DOMAIN files : files[g].notebookId = nid}} ELSE {}

\* getChat: chats[notebookId] || []
GetChat(nid) == IF nid \in DOMAIN chats THEN chats[nid] ELSE <<>>

\* ------------------------------------------------------------------- Init
StoreInit ==
    /\ idbEnv \in IdbEnvs
    /\ db = FALSE
    /\ notebooks = << >>
    /\ files = << >>
    /\ chats = << >>
    /\ settings = "{}"
    /\ now = 0
    /\ nextId = 1
    /\ nextMsgId = 1
    /\ last = NoOp

\* ------------------------------------------------------------ environment
\* the clock advances
Tick ==
    /\ now < MaxTime
    /\ now' = now + 1
    /\ UNCHANGED <<idbEnv, db, notebooks, files, chats, settings, nextId, nextMsgId, last>>

\* the constructor's initIndexedDB(): request.onsuccess sets this.db
InitIndexedDB ==
    /\ idbEnv = "ok"
    /\ ~db
    /\ db' = TRUE
    /\ UNCHANGED <<idbEnv, notebooks, files, chats, settings, now, nextId, nextMsgId, last>>

\* ------------------------------------------------- store operations
\* outcome of saveToIndexedDB / deleteNotebook: ok is whether the request succeeds
IdbWriteResult(ok) ==
    IF InitRejects THEN "rejected"
    ELSE IF ~DbOpen THEN "resolved"
    ELSE IF ok THEN "resolved" ELSE "rejected"

\* whether store.put / store.delete takes effect
IdbWrites(ok) == DbOpen /\ ok

\* NewNotebook with the two timestamps taken in the other order
NewNotebookStampedBackwards(id, title, t1, t2) ==
    [id |-> id, title |-> title, sources |-> <<>>, createdAt |-> t2, updatedAt |-> t1]

\* the record createNotebook builds
NewNotebook(id, title, t1, t2) ==
    [id |-> id, title |-> title, sources |-> <<>>, createdAt |-> t1, updatedAt |-> t2]

\* store.put(data) on STORES.NOTEBOOKS
PutNotebook(nb) == (nb.id :> nb) @@ notebooks

\* a put that leaves the record put as the only one of the store
PutFileAlone(f) == (f.id :> f)

\* store.put(data) on STORES.FILES
PutFile(f) == (f.id :> f) @@ files

\* createNotebook(title, description?); the clock may advance by d between
\* the Date.now() of createdAt and the one of updatedAt
CreateNotebook(title, d, ok) ==
    /\ nextId <= MaxIds
    /\ now + d <= MaxTime
    /\ LET nb == NewNotebook(nextId, title, now, now + d) IN
        /\ notebooks' = IF IdbWrites(ok) THEN PutNotebook(nb) ELSE notebooks
        /\ last' = [NoOp EXCEPT !.op = "createNotebook", !.id = nb.id, !.title = title,
                                !.res = IdbWriteResult(ok), !.hit = IdbWrites(ok), !.nb = nb]
    /\ db' = DbOpen
    /\ now' = now + d
    /\ nextId' = nextId + 1
    /\ UNCHANGED <<idbEnv, files, chats, settings, nextMsgId>>

\* updateNotebook without the stamp: the record is put as passed
UpdateNotebookUnstamped(nb, ok) ==
    /\ notebooks' = IF IdbWrites(ok) THEN PutNotebook(nb) ELSE notebooks
    /\ last' = [NoOp EXCEPT !.op = "updateNotebook", !.id = nb.id, !.title = nb.title,
                            !.res = IdbWriteResult(ok), !.hit = IdbWrites(ok), !.nb = nb]
    /\ db' = DbOpen
    /\ UNCHANGED <<idbEnv, files, chats, settings, now, nextId, nextMsgId>>

\* updateNotebook that puts the record only when the store holds one of its id
UpdateNotebookIfPresent(nb, ok) ==
    /\ LET stamped == [nb EXCEPT !.updatedAt = now] IN
        /\ notebooks' = IF IdbWrites(ok) /\ nb.id \in DOMAIN notebooks
                         THEN PutNotebook(stamped) ELSE notebooks
        /\ last' = [NoOp EXCEPT !.op = "updateNotebook", !.id = nb.id, !.title = nb.title,
                                !.res = IdbWriteResult(ok), !.hit = IdbWrites(ok),
                                !.nb = stamped, !.missing = (nb.id \notin DOMAIN notebooks)]
    /\ db' = DbOpen
    /\ UNCHANGED <<idbEnv, files, chats, settings, now, nextId, nextMsgId>>

\* updateNotebook(notebook): stamps updatedAt = Date.now(), then put
UpdateNotebook(nb, ok) ==
    /\ LET stamped == [nb EXCEPT !.updatedAt = now] IN
        /\ notebooks' = IF IdbWrites(ok) THEN PutNotebook(stamped) ELSE notebooks
        /\ last' = [NoOp EXCEPT !.op = "updateNotebook", !.id = nb.id, !.title = nb.title,
                                !.res = IdbWriteResult(ok), !.hit = IdbWrites(ok),
                                !.nb = stamped, !.missing = (nb.id \notin DOMAIN notebooks)]
    /\ db' = DbOpen
    /\ UNCHANGED <<idbEnv, files, chats, settings, now, nextId, nextMsgId>>

\* a caller gets the record createNotebook returns and keeps it
CallCreateNotebook(title, d, ok) ==
    /\ CreateNotebook(title, d, ok)
    /\ heldNotebooks' = IF IdbWriteResult(ok) = "resolved"
                        THEN (nextId :> NewNotebook(nextId, title, now, now + d)) @@ heldNotebooks
                        ELSE heldNotebooks
    /\ UNCHANGED <<fileOwner, addRuns>>

\* a caller passes a record it holds to updateNotebook; notebook.updatedAt is
\* assigned on the caller's object before the put
CallUpdateNotebook(id, ok) ==
    /\ id \in DOMAIN heldNotebooks
    /\ UpdateNotebook(heldNotebooks[id], ok)
    /\ heldNotebooks' = [heldNotebooks EXCEPT ![id] = [@ EXCEPT !.updatedAt = now]]
    /\ UNCHANGED <<fileOwner, addRuns>>

\* DeleteNotebook with store.clear() in place of store.delete(id)
DeleteNotebookClears(id, ok) ==
    /\ notebooks' = IF IdbWrites(ok) THEN << >> ELSE notebooks
    /\ last' = [NoOp EXCEPT !.op = "deleteNotebook", !.id = id, !.res = IdbWriteResult(ok),
                            !.hit = (id \in DOMAIN notebooks)]
    /\ db' = DbOpen
    /\ UNCHANGED <<idbEnv, files, chats, settings, now, nextId, nextMsgId>>

\* deleteNotebook(id): store.delete(id) on STORES.NOTEBOOKS only
DeleteNotebook(id, ok) ==
    /\ notebooks' = IF IdbWrites(ok) THEN Remove(notebooks, id) ELSE notebooks
    /\ last' = [NoOp EXCEPT !.op = "deleteNotebook", !.id = id, !.res = IdbWriteResult(ok),
                            !.hit = (id \in DOMAIN notebooks)]
    /\ db' = DbOpen
    /\ UNCHANGED <<idbEnv, files, chats, settings, now, nextId, nextMsgId>>

\* { ...file, notebookId }
WithNotebookId(file, nid) ==
    [k \in DOMAIN file \cup {"notebookId"} |-> IF k = "notebookId" THEN nid ELSE file[k]]

\* saveFile(file, notebookId): { ...file, notebookId }, then put
SaveFile(file, nid, ok) ==
    /\ LET fileWithNotebook == WithNotebookId(file, nid) IN
        files' = IF IdbWrites(ok) THEN PutFile(fileWithNotebook) ELSE files
    /\ last' = [NoOp EXCEPT !.op = "saveFile", !.id = nid, !.res = IdbWriteResult(ok),
                            !.hit = IdbWrites(ok)]
    /\ db' = DbOpen
    /\ UNCHANGED <<idbEnv, notebooks, chats, settings, now, nextId, nextMsgId>>

\* a saveFile(file, notebookId) call of a caller that keeps track of the owner
\* it named last for each file id
CallSaveFile(file, nid, ok) ==
    /\ SaveFile(file, nid, ok)
    /\ fileOwner' = IF IdbWriteResult(ok) = "resolved"
                    THEN (file.id :> nid) @@ fileOwner ELSE fileOwner
    /\ UNCHANGED <<addRuns, heldNotebooks>>

\* a call of getFilesByNotebook(notebookId) settles; ok is whether the
\* index.getAll request succeeds
CallGetFilesByNotebook(nid, ok) ==
    /\ last' = [NoOp EXCEPT !.op = "getFilesByNotebook", !.id = nid,
                            !.res = IdbWriteResult(ok),
                            !.files = IF IdbWriteResult(ok) = "resolved"
                                      THEN GetFilesByNotebook(nid) ELSE {}]
    /\ db' = DbOpen
    /\ UNCHANGED <<idbEnv, notebooks, files, chats, settings, now, nextId, nextMsgId>>

\* the message addChatMessage builds: { ...message, id, timestamp: Date.now() }
NewChatMessage(id, content, isUser, srcs, t) ==
    [id |-> id, content |-> content, isUser |-> isUser, timestamp |-> t, sources |-> srcs]

\* SaveChatValue starting from an empty record instead of the stored one
SaveChatValueFromEmpty(nid, chatMessages, wok) ==
    IF wok THEN (nid :> chatMessages) ELSE chats

\* saveChat: chats[notebookId] = messages, written back whole; setItem may
\* throw (quota), which saveToLocalStorage swallows (wok = FALSE)
SaveChatValue(nid, chatMessages, wok) ==
    IF wok THEN (nid :> chatMessages) @@ chats ELSE chats

\* saveChat(notebookId, messages)
SaveChat(nid, chatMessages, wok) ==
    /\ chats' = SaveChatValue(nid, chatMessages, wok)
    /\ last' = [NoOp EXCEPT !.op = "saveChat", !.id = nid, !.res = "resolved", !.hit = wok]
    /\ UNCHANGED <<idbEnv, db, notebooks, files, settings, now, nextId, nextMsgId>>

\* UpdatedMessages with the new message put first
UpdatedMessagesPrepended(existingMessages, chatMessage) == <<chatMessage>> \o existingMessages

\* the list addChatMessage writes back: [...existingMessages, chatMessage]
UpdatedMessages(existingMessages, chatMessage) == Append(existingMessages, chatMessage)

\* addChatMessage(notebookId, message), run without interruption
AddChatMessage(nid, content, isUser, srcs, wok) ==
    /\ LET chatMessage == NewChatMessage(nextMsgId, content, isUser, srcs, now)
           existingMessages == GetChat(nid) IN
        /\ chats' = SaveChatValue(nid, UpdatedMessages(existingMessages, chatMessage), wok)
        /\ last' = [NoOp EXCEPT !.op = "addChatMessage", !.id = nid, !.res = "resolved",
                                !.hit = wok, !.msg = chatMessage]
    /\ nextMsgId' = nextMsgId + 1
    /\ UNCHANGED <<idbEnv, db, notebooks, files, settings, now, nextId>>

\* addChatMessage(notebookId, message) of an execution context, step by step.
\* First step, up to `await this.getChat(notebookId)`: the message is built and
\* the list is read
AddChatMessageBegin(nid, content, isUser) ==
    /\ addRuns' = addRuns \cup {[pc |-> "save", nid |-> nid,
                                  chatMessage |-> NewChatMessage(nextMsgId, content, isUser,
                                                                 {}, now),
                                  existingMessages |-> GetChat(nid),
                                  chatsRead |-> << >>]}
    /\ nextMsgId' = nextMsgId + 1
    /\ UNCHANGED <<idbEnv, db, notebooks, files, chats, settings, now, nextId, last, fileOwner,
                   heldNotebooks>>

\* second step, saveChat's getFromLocalStorage(STORAGE_KEYS.CHATS): the record
\* of all chats is read. localStorage has no lock across browsing contexts, so
\* another context may write between this read and the write that follows
AddChatMessageSaveRead(r) ==
    /\ r \in addRuns /\ r.pc = "save"
    /\ addRuns' = (addRuns \ {r}) \cup {[r EXCEPT !.pc = "write", !.chatsRead = chats]}
    /\ UNCHANGED <<storeVars, fileOwner, heldNotebooks>>

\* AddChatMessageSaveWrite appending to the list stored at the time of the write
AddChatMessageSaveWriteAppends(r, wok) ==
    /\ r \in addRuns /\ r.pc = "write"
    /\ chats' = IF wok THEN (r.nid :> UpdatedMessages(GetChat(r.nid), r.chatMessage)) @@ chats
                ELSE chats
    /\ last' = [NoOp EXCEPT !.op = "addChatMessage", !.id = r.nid, !.res = "resolved",
                            !.hit = wok, !.msg = r.chatMessage, !.before = GetChat(r.nid)]
    /\ addRuns' = addRuns \ {r}
    /\ UNCHANGED <<idbEnv, db, notebooks, files, settings, now, nextId, nextMsgId, fileOwner,
                   heldNotebooks>>

\* third step, saveChat's chats[notebookId] = updatedMessages and
\* saveToLocalStorage: the record read is written back whole
AddChatMessageSaveWrite(r, wok) ==
    /\ r \in addRuns /\ r.pc = "write"
    /\ chats' = IF wok
                THEN (r.nid :> UpdatedMessages(r.existingMessages, r.chatMessage)) @@ r.chatsRead
                ELSE chats
    /\ last' = [NoOp EXCEPT !.op = "addChatMessage", !.id = r.nid, !.res = "resolved",
                            !.hit = wok, !.msg = r.chatMessage, !.before = GetChat(r.nid)]
    /\ addRuns' = addRuns \ {r}
    /\ UNCHANGED <<idbEnv, db, notebooks, files, settings, now, nextId, nextMsgId, fileOwner,
                   heldNotebooks>>

\* saveSettings(settings)
SaveSettings(v, wok) ==
    /\ settings' = IF wok THEN v ELSE settings
    /\ last' = [NoOp EXCEPT !.op = "saveSettings", !.res = "resolved", !.hit = wok]
    /\ UNCHANGED <<idbEnv, db, notebooks, files, chats, now, nextId, nextMsgId>>

\* clearAllData with the indexed store cleared first and the localStorage keys
\* removed after it
ClearAllDataIndexedFirst(ok) ==
    /\ chats' = IF IdbWriteResult(ok) = "resolved" /\ DbOpen THEN << >> ELSE chats
    /\ settings' = IF IdbWriteResult(ok) = "resolved" /\ DbOpen THEN "{}" ELSE settings
    /\ notebooks' = IF IdbWrites(ok) THEN << >> ELSE notebooks
    /\ files' = IF IdbWrites(ok) THEN << >> ELSE files
    /\ last' = [NoOp EXCEPT !.op = "clearAllData", !.res = IdbWriteResult(ok),
                            !.hit = IdbWrites(ok)]
    /\ db' = DbOpen
    /\ UNCHANGED <<idbEnv, now, nextId, nextMsgId>>

\* clearAllData(): removeItem on every key, then clear() on both object stores
\* in one transaction (a failing request aborts the transaction)
ClearAllData(ok) ==
    /\ chats' = << >>
    /\ settings' = "{}"
    /\ notebooks' = IF IdbWrites(ok) THEN << >> ELSE notebooks
    /\ files' = IF IdbWrites(ok) THEN << >> ELSE files
    /\ last' = [NoOp EXCEPT !.op = "clearAllData", !.res = IdbWriteResult(ok),
                            !.hit = IdbWrites(ok)]
    /\ db' = DbOpen
    /\ UNCHANGED <<idbEnv, now, nextId, nextMsgId>>

\* ------------------------------------------------------- file processor
\* a file id as the string generateFileId() returns
IdString(id) == "file_" \o ToString(id)

\* file.name as a string
NameString(name) == name.stem \o "." \o name.ext

DocxMime == "application/vnd.openxmlformats-officedocument.wordprocessingml.document"
TextTypes == {"text/plain", "text/markdown"}

\* files a user may pick: name (stem and lower-cased extension) and declared type
RawFiles ==
    { [stem |-> "a", ext |-> "txt", type |-> "text/plain"],
      [stem |-> "a", ext |-> "docx", type |-> ""],
      [stem |-> "a", ext |-> "xyz", type |-> ""] }

\* generateFileSummary: processedFile.content.length < 100
FileSummaryMinLength == 100

\* generateSourceSummary: content.trim().length < 50
SourceSummaryMinLength == 50

\* an extracted text: content.length (len) and content.trim().length (trimLen)
NoContent == [len |-> 0, trimLen |-> 0]

\* texts the extractors return in the upload flow: 50 and 120 characters with
\* no surrounding white space
FileContents == {[len |-> n, trimLen |-> n] : n \in {50, 120}}

\* texts passed to the summarizers: empty, around both thresholds, and long
\* with little but white space in it
SummaryContents ==
    {[len |-> n, trimLen |-> n] : n \in {0, 49, 50, 99, 100, 120}}
        \cup {[len |-> 120, trimLen |-> 40]}

\* what model.generateContent / response.text() does: it throws (cause: what
\* error.message includes), returns an empty text, returns text that
\* JSON.parse rejects (summary, keyPoints: what the line heuristics extract),
\* or returns JSON (summary: parsed.summary or "" when falsy; isArray,
\* keyPoints: parsed.keyPoints)
RemoteResponses ==
    {[kind |-> "fail", cause |-> c, summary |-> "", isArray |-> FALSE, keyPoints |-> <<>>] :
        c \in {"API_KEY", "quota", "safety", "other"}}
    \cup {[kind |-> "empty", cause |-> "", summary |-> "", isArray |-> FALSE, keyPoints |-> <<>>]}
    \cup {[kind |-> k, cause |-> "", summary |-> t, isArray |-> a, keyPoints |-> kp] :
            k \in {"json", "text"}, t \in {"", "s"}, a \in BOOLEAN, kp \in {<<>>, <<"p">>}}

\* the remote call throws for a cause the catch block does not single out
RemoteFailure ==
    [kind |-> "fail", cause |-> "other", summary |-> "", isArray |-> FALSE, keyPoints |-> <<>>]

\* what the remote summarization call does in the upload flow: well-formed
\* JSON, plain text with a summary line and a bullet, or a failure
RemoteOutcomes ==
    {RemoteFailure}
    \cup {r \in RemoteResponses : /\ r.kind \in {"json", "text"} /\ r.summary = "s"
                                  /\ r.isArray = (r.kind = "json") /\ r.keyPoints = <<"p">>}

\* a ProcessedFile without summary: the field is undefined
NoSummary == [text |-> "undefined", keyPoints |-> <<>>, sourceId |-> "undefined"]

NoFile == [id |-> 0, name |-> [stem |-> "", ext |-> ""], type |-> "", content |-> NoContent,
           isProcessing |-> FALSE, summary |-> NoSummary]

NoError == [kind |-> "", name |-> [stem |-> "", ext |-> ""]]

FileName(file) == [stem |-> file.stem, ext |-> file.ext]

\* Dispatch with the text branch as the last resort
DispatchTextLast(file) ==
    IF file.type = "application/pdf" \/ file.ext = "pdf" THEN "pdf"
    ELSE IF file.type = DocxMime \/ file.ext = "docx" THEN "docx"
    ELSE IF file.ext = "hwpx" THEN "hwpx"
    ELSE "text"

\* Dispatch with the plain-text test made first
DispatchTextFirst(file) ==
    IF file.type \in TextTypes \/ file.ext \in {"txt", "md", "markdown"} THEN "text"
    ELSE IF file.type = "application/pdf" \/ file.ext = "pdf" THEN "pdf"
    ELSE IF file.type = DocxMime \/ file.ext = "docx" THEN "docx"
    ELSE IF file.ext = "hwpx" THEN "hwpx"
    ELSE "unsupported"

\* the tests of processFile's if / else-if chain on the lower-cased type and
\* name, in the order they are written
BranchTests(file) ==
    << [branch |-> "pdf", passes |-> file.type = "application/pdf" \/ file.ext = "pdf"],
       [branch |-> "docx", passes |-> file.type = DocxMime \/ file.ext = "docx"],
       [branch |-> "hwpx", passes |-> file.ext = "hwpx"],
       [branch |-> "text", passes |-> file.type \in TextTypes
                                         \/ file.ext \in {"txt", "md", "markdown"}] >>

\* the branch of processFile's if / else-if chain a file takes
Dispatch(file) ==
    IF file.type = "application/pdf" \/ file.ext = "pdf" THEN "pdf"
    ELSE IF file.type = DocxMime \/ file.ext = "docx" THEN "docx"
    ELSE IF file.ext = "hwpx" THEN "hwpx"
    ELSE IF file.type \in TextTypes \/ file.ext \in {"txt", "md", "markdown"} THEN "text"
    ELSE "unsupported"

\* processFile(file): ioOk is whether the branch's extractor returns (the HWPX
\* placeholder always does), content the text it returns; the message of an
\* unsupported format carries file.name, an extractor's message does not
ProcessFile(file, id, ioOk, content) ==
    LET branch == Dispatch(file) IN
    IF branch = "unsupported" \/ (~ioOk /\ branch # "hwpx")
    THEN [success |-> FALSE, file |-> NoFile,
          error |-> [kind |-> branch,
                     name |-> IF branch = "unsupported" THEN FileName(file)
                              ELSE NoError.name]]
    ELSE [success |-> TRUE,
          file |-> [id |-> id, name |-> FileName(file),
                    type |-> IF file.type = "" THEN "unknown" ELSE file.type,
                    content |-> content, isProcessing |-> TRUE, summary |-> NoSummary],
          error |-> NoError]

\* the catch block of generateSourceSummary: errorMessage
ErrorMessage(cause) ==
    IF cause = "API_KEY" THEN "remote-error-key"
    ELSE IF cause = "quota" THEN "remote-error-quota"
    ELSE IF cause = "safety" THEN "remote-error-safety"
    ELSE "remote-error"

\* const sourceId = `source_${Date.now()}_${random}`: a new id made inside
\* generateSourceSummary, which is given the file's name and content only
FreshSourceId == "source_fresh"

\* generateSourceSummary(fileName, content): every path returns a SourceSummary
\* with a freshly generated sourceId
GenerateSourceSummary(content, remote) ==
    IF content.trimLen < SourceSummaryMinLength
    THEN [text |-> "source-too-short", keyPoints |-> <<"content-lacking">>,
          sourceId |-> FreshSourceId]
    ELSE IF remote.kind \in {"fail", "empty"}
    THEN [text |-> ErrorMessage(remote.cause), keyPoints |-> <<"no-summary-for-error">>,
          sourceId |-> FreshSourceId]
    ELSE IF remote.kind = "json"
    THEN [text |-> IF remote.summary = "" THEN "summary-not-parsed" ELSE remote.summary,
          keyPoints |-> IF remote.isArray THEN remote.keyPoints ELSE <<"no-key-points">>,
          sourceId |-> FreshSourceId]
    ELSE [text |-> IF remote.summary = "" THEN "format-not-parsed" ELSE remote.summary,
          keyPoints |-> IF Len(remote.keyPoints) > 0 THEN remote.keyPoints
                        ELSE <<"no-key-points-in-text">>,
          sourceId |-> FreshSourceId]

\* the number of model.generateContent calls generateSourceSummary makes
SourceSummaryRemoteCalls(content) ==
    IF content.trimLen < SourceSummaryMinLength THEN 0 ELSE 1

\* GenerateFileSummary handing the file back as processFile built it
GenerateFileSummaryUntouched(processedFile, remote) == processedFile

\* generateFileSummary(processedFile)
GenerateFileSummary(processedFile, remote) ==
    IF processedFile.content.len < FileSummaryMinLength
    THEN [processedFile EXCEPT !.isProcessing = FALSE,
                               !.summary = [text |-> "file-too-short",
                                            keyPoints |-> <<"short-document">>,
                                            sourceId |-> IdString(processedFile.id)]]
    ELSE [processedFile EXCEPT !.summary = GenerateSourceSummary(processedFile.content, remote),
                               !.isProcessing = FALSE]

\* the number of model.generateContent calls generateFileSummary makes
FileSummaryRemoteCalls(content) ==
    IF content.len < FileSummaryMinLength THEN 0 ELSE SourceSummaryRemoteCalls(content)

\* ------------------------------------------------------------- dashboard
\* insertion step of a stable sort by updatedAt, descending
RECURSIVE InsertDesc(_, _)
InsertDesc(nb, sorted) ==
    IF sorted = <<>> THEN <<nb>>
    ELSE IF Head(sorted).updatedAt >= nb.updatedAt
         THEN <<Head(sorted)>> \o InsertDesc(nb, Tail(sorted))
         ELSE <<nb>> \o sorted

RECURSIVE SortDesc(_)
SortDesc(list) ==
    IF list = <<>> THEN <<>>
    ELSE InsertDesc(list[Len(list)], SortDesc(SubSeq(list, 1, Len(list) - 1)))

\* store.getAll(): the records in key order
RECURSIVE GetAllInKeyOrder(_)
GetAllInKeyOrder(keys) ==
    IF keys = {} THEN <<>>
    ELSE LET k == CHOOSE x \in keys : \A y \in keys : x <= y IN
         <<notebooks[k]>> \o GetAllInKeyOrder(keys \ {k})

\* getAllNotebooks() without the sort
GetAllNotebooksUnsorted ==
    IF DbOpen THEN GetAllInKeyOrder(DOMAIN notebooks) ELSE <<>>

\* getAllNotebooks(): notebooks.sort((a, b) => b.updatedAt - a.updatedAt)
GetAllNotebooks ==
    IF DbOpen THEN SortDesc(GetAllInKeyOrder(DOMAIN notebooks)) ELSE <<>>

\* a getAllNotebooks() that takes the records out of the store as it reads them
CallGetAllNotebooksDraining(ok) ==
    /\ last' = [NoOp EXCEPT !.op = "getAllNotebooks",
                            !.res = IdbWriteResult(ok),
                            !.list = IF IdbWriteResult(ok) = "resolved"
                                     THEN GetAllNotebooks ELSE <<>>,
                            !.again = (last.op = "getAllNotebooks"
                                       /\ last.res = "resolved")]
    /\ db' = DbOpen
    /\ notebooks' = IF IdbWrites(ok) THEN << >> ELSE notebooks
    /\ UNCHANGED <<idbEnv, files, chats, settings, now, nextId, nextMsgId>>

\* a call of getAllNotebooks() settles; ok is whether the getAll request succeeds
CallGetAllNotebooks(ok) ==
    /\ last' = [NoOp EXCEPT !.op = "getAllNotebooks",
                            !.res = IdbWriteResult(ok),
                            !.list = IF IdbWriteResult(ok) = "resolved"
                                     THEN GetAllNotebooks ELSE <<>>,
                            !.again = (last.op = "getAllNotebooks"
                                       /\ last.res = "resolved")]
    /\ db' = DbOpen
    /\ UNCHANGED <<idbEnv, notebooks, files, chats, settings, now, nextId, nextMsgId>>

SeqIds(list) == [i \in 1..Len(list) |-> list[i].id]

FilterOut(list, id) ==
    LET RECURSIVE F(_)
        F(l) == IF l = <<>> THEN <<>>
                ELSE IF Head(l) = id THEN F(Tail(l)) ELSE <<Head(l)>> \o F(Tail(l))
    IN F(list)

\* loadNotebooks(): setNotebooks(await storage.getAllNotebooks()); a rejection is caught
LoadNotebooks ==
    /\ dashNotebooks' = IF InitRejects THEN dashNotebooks ELSE SeqIds(GetAllNotebooks)
    /\ db' = DbOpen
    /\ UNCHANGED <<idbEnv, notebooks, files, chats, settings, now, nextId, nextMsgId, last>>

\* handleDeleteNotebook(notebookId) on a listed notebook, confirm() answered yes
HandleDeleteNotebook(notebookId, ok) ==
    /\ \E i \in 1..Len(dashNotebooks) : dashNotebooks[i] = notebookId
    /\ DeleteNotebook(notebookId, ok)
    /\ dashNotebooks' = IF IdbWriteResult(ok) = "resolved"
                        THEN FilterOut(dashNotebooks, notebookId) ELSE dashNotebooks

\* ---------------------------------------------------------- upload modal
ModalTitles == {"", "n"}

\* notebookTitle.trim()
Trim(t) == IF t = " " THEN "" ELSE t

NoResult == [success |-> FALSE, file |-> NoFile, error |-> NoError]

NewFileStatus(file) ==
    [file |-> file, status |-> "pending", processedFile |-> NoFile, error |-> NoError,
     progress |-> 0]

NoCommit == [res |-> "none", nb |-> 0, files |-> {}]

RemoveAt(list, r) == SubSeq(list, 1, r - 1) \o SubSeq(list, r + 1, Len(list))

\* MarkProcessing applied to every item from i on
MarkProcessingFrom(list, i) ==
    [idx \in 1..Len(list) |->
        IF idx >= i THEN [list[idx] EXCEPT !.status = "processing", !.progress = 0]
        ELSE list[idx]]

\* prev.map((item, idx) => idx === i ? { ...item, status: 'processing', progress: 0 } : item)
MarkProcessing(list, i) ==
    [idx \in 1..Len(list) |->
        IF idx = i THEN [list[idx] EXCEPT !.status = "processing", !.progress = 0]
        ELSE list[idx]]

\* prev.map((item, idx) => idx === i ? { ...item, progress } : item)
SetProgress(list, i, progress) ==
    [idx \in 1..Len(list) |->
        IF idx = i THEN [list[idx] EXCEPT !.progress = progress] ELSE list[idx]]

\* prev.map((item, idx) => idx === i ? results[i] : item)
ReplaceAt(list, i, item) ==
    [idx \in 1..Len(list) |-> IF idx = i THEN item ELSE list[idx]]

\* results.push({ ...fileStatus, status: 'success', processedFile: enhancedFile, progress: 100 })
SuccessEntry(fileStatus, enhancedFile) ==
    [fileStatus EXCEPT !.status = "success", !.processedFile = enhancedFile, !.progress = 100]

\* ErrorEntry with the catch block's default message in place of result.error
ErrorEntryUnknown(fileStatus, error) ==
    [fileStatus EXCEPT !.status = "error", !.progress = 100,
                       !.error = [kind |-> "unknown", name |-> [stem |-> "", ext |-> ""]]]

\* results.push({ ...fileStatus, status: 'error', error: result.error, progress: 100 })
ErrorEntry(fileStatus, error) ==
    [fileStatus EXCEPT !.status = "error", !.error = error, !.progress = 100]

\* uploadedFiles.filter(f => f.status === 'success' && f.processedFile).map(f => f.processedFile!)
SuccessfulFiles(list) ==
    LET RECURSIVE F(_)
        F(l) == IF l = <<>> THEN <<>>
                ELSE IF Head(l).status = "success" /\ Head(l).processedFile # NoFile
                     THEN <<Head(l).processedFile>> \o F(Tail(l))
                     ELSE F(Tail(l))
    IN F(list)

\* addFiles(files) with one picked file; the upload area is rendered in step 'upload'
AddFiles(file) ==
    /\ step = "upload"
    /\ Len(uploadedFiles) < MaxFiles
    /\ uploadedFiles' = Append(uploadedFiles, NewFileStatus(file))
    /\ notebookTitle' = IF notebookTitle = "" THEN file.stem ELSE notebookTitle
    /\ UNCHANGED <<isProcessing, step, processRuns, commitRuns, nextFileId,
                   lastCommit>>

\* removeFile(index): the button is rendered for a pending file in step 'upload'
RemoveFile(index) ==
    /\ step = "upload"
    /\ index \in 1..Len(uploadedFiles)
    /\ uploadedFiles[index].status = "pending"
    /\ uploadedFiles' = RemoveAt(uploadedFiles, index)
    /\ UNCHANGED <<isProcessing, step, notebookTitle, processRuns, commitRuns, nextFileId, lastCommit>>

\* the upload step's continue button: setStep('configure')
Continue ==
    /\ step = "upload"
    /\ Len(uploadedFiles) > 0
    /\ step' = "configure"
    /\ UNCHANGED <<uploadedFiles, isProcessing, notebookTitle, processRuns, commitRuns,
                   nextFileId, lastCommit>>

\* the back button of step 'configure' and the restart button of step 'complete':
\* setStep('upload')
BackToUpload ==
    /\ step \in {"configure", "complete"}
    /\ step' = "upload"
    /\ UNCHANGED <<uploadedFiles, isProcessing, notebookTitle, processRuns, commitRuns,
                   nextFileId, lastCommit>>

\* the title inputs of steps 'configure' and 'complete': setNotebookTitle(e.target.value)
SetNotebookTitle(t) ==
    /\ step \in {"configure", "complete"}
    /\ notebookTitle' = t
    /\ UNCHANGED <<uploadedFiles, isProcessing, step, processRuns, commitRuns, nextFileId, lastCommit>>

\* processFiles(), from the click up to the first timer: the process button of
\* step 'upload' (disabled while isProcessing) or the create button of step
\* 'configure' (disabled while the title is blank)
ProcessFilesStart ==
    /\ \/ step = "upload" /\ Len(uploadedFiles) > 0 /\ ~isProcessing
       \/ step = "configure" /\ Trim(notebookTitle) # ""
    /\ IF Len(uploadedFiles) = 0
       THEN /\ isProcessing' = FALSE
            /\ step' = "complete"
            /\ UNCHANGED <<uploadedFiles, processRuns>>
       ELSE /\ isProcessing' = TRUE
            /\ step' = "processing"
            /\ uploadedFiles' = MarkProcessing(uploadedFiles, 1)
            /\ processRuns' = Append(processRuns,
                   [pc |-> "progress", i |-> 1, uploadedFiles |-> uploadedFiles,
                    results |-> <<>>, progress |-> 0, result |-> NoResult])
    /\ UNCHANGED <<notebookTitle, commitRuns, nextFileId, lastCommit>>

\* one 100 ms timer of the simulated progress fires: the next progress value is
\* set, or after 100 processFile(fileStatus.file) is called
ProcessFilesProgress(r) ==
    /\ r \in 1..Len(processRuns)
    /\ processRuns[r].pc = "progress"
    /\ LET run == processRuns[r] IN
       IF run.progress < 100
       THEN /\ uploadedFiles' = SetProgress(uploadedFiles, run.i, run.progress + 20)
            /\ processRuns' = [processRuns EXCEPT ![r].progress = run.progress + 20]
       ELSE /\ processRuns' = [processRuns EXCEPT ![r].pc = "extract"]
            /\ UNCHANGED uploadedFiles
    /\ UNCHANGED <<isProcessing, step, notebookTitle, commitRuns, nextFileId,
                   lastCommit>>

\* the end of one iteration of the for loop, run r having pushed entry: the
\* entry replaces item i, then the next iteration starts or the loop ends
FinishFile(r, entry) ==
    LET run == processRuns[r]
        replaced == ReplaceAt(uploadedFiles, run.i, entry) IN
    /\ IF run.i < Len(run.uploadedFiles)
       THEN /\ uploadedFiles' = MarkProcessing(replaced, run.i + 1)
            /\ processRuns' = [processRuns EXCEPT ![r] =
                   [run EXCEPT !.i = run.i + 1, !.results = Append(run.results, entry),
                               !.pc = "progress", !.progress = 0, !.result = NoResult]]
            /\ UNCHANGED <<isProcessing, step>>
       ELSE /\ uploadedFiles' = replaced
            /\ processRuns' = RemoveAt(processRuns, r)
            /\ isProcessing' = FALSE
            /\ step' = "complete"

\* processFile(fileStatus.file) returns: generateFileSummary(result.file) is
\* called, or the error entry is pushed
ProcessFilesExtract(r, ioOk, content) ==
    /\ r \in 1..Len(processRuns)
    /\ processRuns[r].pc = "extract"
    /\ LET run == processRuns[r]
           fileStatus == run.uploadedFiles[run.i]
           result == ProcessFile(fileStatus.file, nextFileId, ioOk, content) IN
       IF result.success /\ result.file # NoFile
       THEN /\ nextFileId <= MaxFileIds
            /\ processRuns' = [processRuns EXCEPT ![r].pc = "summarize", ![r].result = result]
            /\ nextFileId' = nextFileId + 1
            /\ UNCHANGED <<uploadedFiles, isProcessing, step>>
       ELSE /\ FinishFile(r, ErrorEntry(fileStatus, result.error))
            /\ UNCHANGED nextFileId
    /\ UNCHANGED <<notebookTitle, commitRuns, lastCommit>>

\* generateFileSummary(result.file) returns: the success entry is pushed
ProcessFilesSummarize(r, remote) ==
    /\ r \in 1..Len(processRuns)
    /\ processRuns[r].pc = "summarize"
    /\ LET run == processRuns[r]
           fileStatus == run.uploadedFiles[run.i]
           enhancedFile == GenerateFileSummary(run.result.file, remote) IN
       FinishFile(r, SuccessEntry(fileStatus, enhancedFile))
    /\ UNCHANGED <<notebookTitle, commitRuns, nextFileId, lastCommit>>

\* the set of the elements of a list
Range(list) == {list[i] : i \in 1..Len(list)}

\* the modal's createNotebook(), the click: the complete button is disabled while
\* the title is blank or no file is in 'success'
CommitStart ==
    /\ step = "complete"
    /\ Trim(notebookTitle) # ""
    /\ \E i \in 1..Len(uploadedFiles) : uploadedFiles[i].status = "success"
    /\ Len(commitRuns) < MaxCommitRuns
    /\ LET successfulFiles == SuccessfulFiles(uploadedFiles) IN
       IF Len(successfulFiles) = 0
       THEN UNCHANGED commitRuns
       ELSE commitRuns' = Append(commitRuns,
                   [pc |-> "createNotebook", successfulFiles |-> successfulFiles,
                    title |-> IF notebookTitle = "" THEN "Untitled Notebook" ELSE notebookTitle,
                    notebook |-> NullNotebook, k |-> 1, detached |-> FALSE])
    /\ UNCHANGED <<uploadedFiles, isProcessing, step, notebookTitle, processRuns, nextFileId, lastCommit>>

\* the catch block of the modal's createNotebook(): the run ends, nothing is reset
CommitFailed(r) ==
    /\ commitRuns' = RemoveAt(commitRuns, r)
    /\ lastCommit' = [res |-> "failed", nb |-> commitRuns[r].notebook.id,
                      files |-> Range(commitRuns[r].successfulFiles)]
    /\ UNCHANGED <<uploadedFiles, isProcessing, step, notebookTitle, dashNotebooks>>

\* await storage.createNotebook(notebookTitle || 'Untitled Notebook', notebookDescription)
CommitCreateNotebook(r, d, ok) ==
    /\ r \in 1..Len(commitRuns)
    /\ commitRuns[r].pc = "createNotebook"
    /\ CreateNotebook(commitRuns[r].title, d, ok)
    /\ IF IdbWriteResult(ok) = "resolved"
       THEN /\ commitRuns' = [commitRuns EXCEPT ![r].pc = "saveFile",
                                 ![r].notebook = NewNotebook(nextId, commitRuns[r].title, now, now + d)]
            /\ UNCHANGED <<uploadedFiles, isProcessing, step, notebookTitle, dashNotebooks,
                           lastCommit>>
       ELSE CommitFailed(r)
    /\ UNCHANGED <<processRuns, nextFileId>>

\* await storage.saveFile(file, notebook.id), one iteration of the for loop
CommitSaveFile(r, ok) ==
    /\ r \in 1..Len(commitRuns)
    /\ commitRuns[r].pc = "saveFile"
    /\ LET run == commitRuns[r] IN
       /\ SaveFile(run.successfulFiles[run.k], run.notebook.id, ok)
       /\ IF IdbWriteResult(ok) = "resolved"
          THEN /\ commitRuns' = [commitRuns EXCEPT ![r] =
                      IF run.k < Len(run.successfulFiles)
                      THEN [run EXCEPT !.k = run.k + 1]
                      ELSE [run EXCEPT !.pc = "updateNotebook",
                                       !.notebook.sources = run.successfulFiles]]
               /\ UNCHANGED <<uploadedFiles, isProcessing, step, notebookTitle, dashNotebooks,
                              lastCommit>>
          ELSE CommitFailed(r)
    /\ UNCHANGED <<processRuns, nextFileId>>

\* await storage.updateNotebook(notebook), then onNotebookCreated(notebook) (the
\* dashboard's handleNotebookCreated), onOpenChange(false), router.push and the
\* reset of the modal's state.  The navigation unmounts the dashboard and the
\* modal: what is still in flight no longer reaches their state (detached), and
\* the modal the user opens next starts from the reset state.
CommitUpdateNotebook(r, ok) ==
    /\ r \in 1..Len(commitRuns)
    /\ commitRuns[r].pc = "updateNotebook"
    /\ LET run == commitRuns[r]
           others == RemoveAt(commitRuns, r) IN
       /\ UpdateNotebook(run.notebook, ok)
       /\ IF IdbWriteResult(ok) = "resolved"
          THEN /\ lastCommit' = [res |-> "done", nb |-> run.notebook.id,
                                 files |-> Range(run.successfulFiles)]
               /\ IF run.detached
                  THEN /\ commitRuns' = others
                       /\ UNCHANGED <<dashNotebooks, uploadedFiles, notebookTitle, step,
                                      isProcessing, processRuns>>
                  ELSE /\ dashNotebooks' = <<run.notebook.id>> \o dashNotebooks
                       /\ uploadedFiles' = <<>>
                       /\ notebookTitle' = ""
                       /\ step' = "upload"
                       /\ isProcessing' = FALSE
                       /\ processRuns' = <<>>
                       /\ commitRuns' = [i \in 1..Len(others) |->
                                           [others[i] EXCEPT !.detached = TRUE]]
          ELSE CommitFailed(r) /\ UNCHANGED processRuns
    /\ UNCHANGED <<nextFileId>>

\* ---------------------------------------------------------- notebook page
\* the route parameter id of the page
PageId == 1

\* generateChatResponse's catch block: the content it returns
Apology == "sorry"

\* loadNotebook(): setNotebook(notebookData) when getNotebook(id) finds the
\* record, then notebookData.sources = files and setSelectedSources(ids) with
\* the files of getFilesByNotebook(id); a rejection is caught
LoadNotebook ==
    /\ LET found == ~InitRejects /\ GetNotebook(PageId) # NullNotebook IN
        /\ notebook' = IF found THEN PageId ELSE notebook
        /\ notebookSources' = IF found THEN GetFilesByNotebook(PageId) ELSE notebookSources
        /\ selectedSources' = IF found THEN {f.id : f \in GetFilesByNotebook(PageId)}
                              ELSE selectedSources
    /\ db' = DbOpen
    /\ UNCHANGED <<idbEnv, notebooks, files, chats, settings, now, nextId, nextMsgId, last>>
    /\ UNCHANGED <<messages, isGeneratingResponse, sendRuns>>

\* loadChat(): setMessages(await storage.getChat(id))
LoadChat ==
    /\ messages' = GetChat(PageId)
    /\ UNCHANGED <<notebook, isGeneratingResponse, sendRuns, notebookSources,
                   selectedSources, storeVars>>

\* toggleSourceSelection(sourceId) on a source listed in the side panel
ToggleSourceSelection(sourceId) ==
    /\ notebook # 0
    /\ sourceId \in {f.id : f \in notebookSources}
    /\ selectedSources' = IF sourceId \in selectedSources
                          THEN selectedSources \ {sourceId}
                          ELSE selectedSources \cup {sourceId}
    /\ UNCHANGED <<notebook, messages, isGeneratingResponse, sendRuns, notebookSources,
                   storeVars>>

\* generateChatResponse: chatHistory.slice(-6); handleSendMessage: messages.slice(-6)
ChatHistoryLength == 6

\* list.slice(-n)
SliceLast(list, n) ==
    IF Len(list) <= n THEN list ELSE SubSeq(list, Len(list) - n + 1, Len(list))

\* ChatHistory without the slice
ChatHistoryWhole(list) ==
    [i \in 1..Len(list) |-> [role |-> IF list[i].isUser THEN "user" ELSE "assistant",
                              content |-> list[i].content]]

\* messages.slice(-6).map(msg => ({ role, content }))
ChatHistory(list) ==
    LET tail == SliceLast(list, ChatHistoryLength) IN
    [i \in 1..Len(tail) |-> [role |-> IF tail[i].isUser THEN "user" ELSE "assistant",
                              content |-> tail[i].content]]

\* what model.generateContent may do in generateChatResponse: throw, or answer
\* with a text that includes the names in mentions and, if uncertain, one of
\* the words the confidence heuristic looks for
ChatReplies ==
    {[ok |-> FALSE, mentions |-> {}, uncertain |-> FALSE]}
        \cup {[ok |-> TRUE, mentions |-> m, uncertain |-> u] :
                  m \in SUBSET {"a.txt"}, u \in BOOLEAN}

\* the sources of the answer: source.name of the sources whose name the text
\* includes (the array as the set of its elements)
ReferencedSources(srcFiles, reply) ==
    {f \in srcFiles : NameString(f.name) \in reply.mentions}

\* generateChatResponse with a catch block that keeps the default confidence
GenerateChatResponseConfident(srcFiles, reply) ==
    [content |-> IF reply.ok THEN "r" ELSE Apology,
     sources |-> IF reply.ok THEN {NameString(f.name) : f \in ReferencedSources(srcFiles, reply)}
                 ELSE {},
     confidence |-> 8]

\* generateChatResponse(userQuery, sources, chatHistory): the model's text with
\* the names of the sources it includes and the confidence (in tenths), or the
\* catch block's apology
GenerateChatResponse(srcFiles, reply) ==
    IF reply.ok
    THEN [content |-> "r",
          sources |-> {NameString(f.name) : f \in ReferencedSources(srcFiles, reply)},
          confidence |-> IF reply.uncertain THEN 5
                         ELSE IF Cardinality(ReferencedSources(srcFiles, reply)) > 1 THEN 9
                         ELSE 8]
    ELSE [content |-> Apology, sources |-> {}, confidence |-> 0]

\* HandleSendMessageRespond without the addChatMessage call
HandleSendMessageRespondUnsaved(r, reply, wok) ==
    /\ r \in 1..Len(sendRuns)
    /\ LET aiResponse == GenerateChatResponse(sendRuns[r].selectedSourceFiles, reply) IN
       messages' = Append(messages, NewChatMessage(nextMsgId, aiResponse.content, FALSE,
                                                   aiResponse.sources, now))
    /\ isGeneratingResponse' = FALSE
    /\ sendRuns' = RemoveAt(sendRuns, r)
    /\ UNCHANGED <<notebook, notebookSources, selectedSources, storeVars>>

\* handleSendMessage(), from the send button (disabled while
\* isGeneratingResponse) or the Enter key, up to the call of generateChatResponse
HandleSendMessage(query, viaEnter, wok) ==
    /\ query # ""
    /\ notebook # 0
    /\ viaEnter \/ ~isGeneratingResponse
    /\ AddChatMessage(PageId, query, TRUE, {IdString(i) : i \in selectedSources}, wok)
    /\ isGeneratingResponse' = TRUE
    /\ messages' = Append(messages, NewChatMessage(nextMsgId, query, TRUE,
                                                   {IdString(i) : i \in selectedSources}, now))
    /\ sendRuns' = Append(sendRuns,
                          [pc |-> "generate", userMessage |-> query,
                           selectedSourceFiles |->
                               {f \in notebookSources : f.id \in selectedSources},
                           chatHistory |-> ChatHistory(messages)])
    /\ UNCHANGED <<notebook, notebookSources, selectedSources>>

\* generateChatResponse returns: the assistant message is added to the chat and
\* to the list shown, isGeneratingResponse is cleared
HandleSendMessageRespond(r, reply, wok) ==
    /\ r \in 1..Len(sendRuns)
    /\ LET aiResponse == GenerateChatResponse(sendRuns[r].selectedSourceFiles, reply) IN
       /\ AddChatMessage(PageId, aiResponse.content, FALSE, aiResponse.sources, wok)
       /\ messages' = Append(messages, NewChatMessage(nextMsgId, aiResponse.content, FALSE,
                                                      aiResponse.sources, now))
    /\ isGeneratingResponse' = FALSE
    /\ sendRuns' = RemoveAt(sendRuns, r)
    /\ UNCHANGED <<notebook, notebookSources, selectedSources>>

\* ------------------------------------------------------------- AI client
NoResponse == [content |-> "undefined", sources |-> {}, confidence |-> 0]

\* files processFile may be given: every extension and declared type its tests
\* tell apart, and some they do not
DispatchFiles ==
    {[stem |-> "x", ext |-> e, type |-> t] :
        e \in {"pdf", "docx", "hwpx", "txt", "md", "markdown", "xyz"},
        t \in {"", "application/pdf", DocxMime, "image/png"} \cup TextTypes}

NoRawFile == [stem |-> "", ext |-> "", type |-> ""]

NoCall == [fn |-> "none", content |-> NoContent, remote |-> RemoteFailure,
           summary |-> NoSummary, remoteCalls |-> 0, aiOk |-> TRUE,
           response |-> NoResponse, file |-> NoRawFile, ioOk |-> TRUE,
           branch |-> "none", result |-> NoResult]

\* a call of processFile(file) returns: branch is the branch it took, ioOk
\* whether the extractor of the branch returned, content the text it returned
CallProcessFile(file, ioOk, content) ==
    /\ lastCall' = [NoCall EXCEPT !.fn = "processFile", !.file = file, !.ioOk = ioOk,
                                   !.content = content, !.branch = Dispatch(file),
                                   !.result = ProcessFile(file, 1, ioOk, content)]
    /\ UNCHANGED <<storeVars, dashNotebooks, modalVars, pageVars, auxVars>>

\* a call of generateSourceSummary(fileName, content) returns
CallGenerateSourceSummary(content, remote) ==
    /\ lastCall' = [NoCall EXCEPT !.fn = "generateSourceSummary", !.content = content,
                                   !.remote = remote,
                                   !.summary = GenerateSourceSummary(content, remote),
                                   !.remoteCalls = SourceSummaryRemoteCalls(content)]
    /\ UNCHANGED <<storeVars, dashNotebooks, modalVars, pageVars, auxVars>>

\* a call of generateFileSummary(processedFile) on a file processFile returned
CallGenerateFileSummary(content, remote) ==
    /\ lastCall' = [NoCall EXCEPT !.fn = "generateFileSummary", !.content = content,
                                   !.remote = remote,
                                   !.summary = GenerateFileSummary(
                                       [NoFile EXCEPT !.id = 1, !.content = content,
                                                      !.isProcessing = TRUE], remote).summary,
                                   !.remoteCalls = FileSummaryRemoteCalls(content)]
    /\ UNCHANGED <<storeVars, dashNotebooks, modalVars, pageVars, auxVars>>

\* a call of generateChatResponse(userQuery, sources, chatHistory) returns; the
\* remote call is made once, inside the try block
CallGenerateChatResponse(srcFiles, reply) ==
    /\ lastCall' = [NoCall EXCEPT !.fn = "generateChatResponse", !.aiOk = reply.ok,
                                   !.response = GenerateChatResponse(srcFiles, reply),
                                   !.remoteCalls = 1]
    /\ UNCHANGED <<storeVars, dashNotebooks, modalVars, pageVars, auxVars>>

\* -------------------------------------------------------- specifications
vars == <<idbEnv, db, notebooks, files, chats, settings, now, nextId, nextMsgId, last,
          dashNotebooks, uploadedFiles, isProcessing, step, notebookTitle, processRuns,
          commitRuns, nextFileId, lastCommit, notebook, messages, isGeneratingResponse,
          sendRuns, notebookSources, selectedSources, lastCall, fileOwner, addRuns,
          heldNotebooks>>

Init ==
    /\ StoreInit
    /\ dashNotebooks = <<>>
    /\ uploadedFiles = <<>>
    /\ isProcessing = FALSE
    /\ step = "upload"
    /\ notebookTitle = ""
    /\ processRuns = <<>>
    /\ commitRuns = <<>>
    /\ nextFileId = 1
    /\ lastCommit = NoCommit
    /\ notebook = 0
    /\ messages = <<>>
    /\ isGeneratingResponse = FALSE
    /\ sendRuns = <<>>
    /\ notebookSources = {}
    /\ selectedSources = {}
    /\ lastCall = NoCall
    /\ fileOwner = << >>
    /\ addRuns = {}
    /\ heldNotebooks = << >>

\* processed files a caller of the store may pass to saveFile
StoreFiles ==
    {GenerateFileSummary([NoFile EXCEPT !.id = i, !.name = [stem |-> "a", ext |-> "txt"],
                                       !.content = [len |-> 50, trimLen |-> 50]],
                         RemoteFailure) : i \in FileIds}

\* the same files under another name: a caller may save a changed record under
\* the id of a stored one
RenamedFiles == {[f EXCEPT !.name = [stem |-> "b", ext |-> "txt"]] : f \in StoreFiles}

\* message lists a caller of the store may pass to saveChat
ChatLists == {<<>>, <<NewChatMessage(0, "q", TRUE, {}, 0)>>}

\* records a caller of the store may pass to updateNotebook: a stored record or
\* the one the last call returned, the title possibly edited
UpdateInputs ==
    LET held == ({notebooks[k] : k \in DOMAIN notebooks} \cup {last.nb}) \ {NullNotebook}
    IN {[nb EXCEPT !.title = t] : nb \in held, t \in Titles}

\* the notebook records of the Persistence Store, driven by any caller, one call
\* after the other
NextNotebooks ==
    \/ Tick /\ UNCHANGED <<dashNotebooks, modalVars, pageVars, lastCall, auxVars>>
    \/ InitIndexedDB /\ UNCHANGED <<dashNotebooks, modalVars, pageVars, lastCall, auxVars>>
    \/ \E t \in Titles, d \in {0, 1}, ok \in BOOLEAN :
          CreateNotebook(t, d, ok) /\ UNCHANGED <<dashNotebooks, modalVars, pageVars, lastCall, auxVars>>
    \/ \E nb \in UpdateInputs, ok \in BOOLEAN :
          UpdateNotebook(nb, ok) /\ UNCHANGED <<dashNotebooks, modalVars, pageVars, lastCall, auxVars>>
    \/ \E id \in Ids, ok \in BOOLEAN :
          DeleteNotebook(id, ok) /\ UNCHANGED <<dashNotebooks, modalVars, pageVars, lastCall, auxVars>>
    \/ \E ok \in BOOLEAN :
          CallGetAllNotebooks(ok) /\ UNCHANGED <<dashNotebooks, modalVars, pageVars, lastCall, auxVars>>

SpecNotebooks == Init /\ [][NextNotebooks]_vars

\* the chat lists of the Persistence Store, driven by any caller, one call after
\* the other
NextChats ==
    \/ Tick /\ UNCHANGED <<dashNotebooks, modalVars, pageVars, lastCall, auxVars>>
    \/ \E id \in NotebookKeys, l \in ChatLists, wok \in BOOLEAN :
          SaveChat(id, l, wok) /\ UNCHANGED <<dashNotebooks, modalVars, pageVars, lastCall, auxVars>>
    \/ \E id \in NotebookKeys, u \in BOOLEAN, wok \in BOOLEAN :
          /\ nextMsgId <= MaxMsgs /\ Len(GetChat(id)) < MaxChat
          /\ AddChatMessage(id, IF u THEN "q" ELSE "r", u, {}, wok)
          /\ UNCHANGED <<dashNotebooks, modalVars, pageVars, lastCall, auxVars>>
    \/ \E ok \in BOOLEAN : ClearAllData(ok) /\ UNCHANGED <<dashNotebooks, modalVars, pageVars, lastCall, auxVars>>

SpecChats == Init /\ [][NextChats]_vars

\* the file records of the Persistence Store, driven by one caller, one call
\* after the other
NextFiles ==
    \/ InitIndexedDB /\ UNCHANGED <<dashNotebooks, modalVars, pageVars, lastCall, auxVars>>
    \/ \E f \in StoreFiles \cup RenamedFiles, id \in NotebookKeys, ok \in BOOLEAN :
          CallSaveFile(f, id, ok) /\ UNCHANGED <<dashNotebooks, modalVars, pageVars, lastCall>>
    \/ \E id \in NotebookKeys, ok \in BOOLEAN :
          CallGetFilesByNotebook(id, ok)
          /\ UNCHANGED <<dashNotebooks, modalVars, pageVars, lastCall, auxVars>>

\* a caller that keeps the records it created, updates them and deletes
\* notebooks by id, one call after the other
NextUpsert ==
    \/ Tick /\ UNCHANGED <<dashNotebooks, modalVars, pageVars, lastCall, auxVars>>
    \/ \E ok \in BOOLEAN :
          CallCreateNotebook("t", 0, ok) /\ UNCHANGED <<dashNotebooks, modalVars, pageVars, lastCall>>
    \/ \E id \in Ids, ok \in BOOLEAN :
          CallUpdateNotebook(id, ok) /\ UNCHANGED <<dashNotebooks, modalVars, pageVars, lastCall>>
    \/ \E id \in Ids, ok \in BOOLEAN :
          DeleteNotebook(id, ok) /\ UNCHANGED <<dashNotebooks, modalVars, pageVars, lastCall, auxVars>>

SpecUpsert == Init /\ [][NextUpsert]_vars

SpecFiles == Init /\ [][NextFiles]_vars

\* the flat store written by several execution contexts (tabs) whose
\* addChatMessage calls interleave
NextContexts ==
    \/ \E id \in NotebookKeys, u \in BOOLEAN :
          /\ nextMsgId <= MaxMsgs /\ Len(GetChat(id)) < MaxChat
          /\ AddChatMessageBegin(id, IF u THEN "q" ELSE "r", u)
          /\ UNCHANGED <<dashNotebooks, modalVars, pageVars, lastCall>>
    \/ \E r \in addRuns :
          AddChatMessageSaveRead(r) /\ UNCHANGED <<dashNotebooks, modalVars, pageVars, lastCall>>
    \/ \E r \in addRuns, wok \in BOOLEAN :
          AddChatMessageSaveWrite(r, wok)
          /\ UNCHANGED <<dashNotebooks, modalVars, pageVars, lastCall>>
    \/ \E v \in SettingsValues, wok \in BOOLEAN :
          SaveSettings(v, wok) /\ UNCHANGED <<dashNotebooks, modalVars, pageVars, lastCall, auxVars>>

SpecContexts == Init /\ [][NextContexts]_vars

\* both tiers filled by any caller, and the full reset
NextReset ==
    \/ InitIndexedDB /\ UNCHANGED <<dashNotebooks, modalVars, pageVars, lastCall, auxVars>>
    \/ \E ok \in BOOLEAN :
          CreateNotebook("t", 0, ok) /\ UNCHANGED <<dashNotebooks, modalVars, pageVars, lastCall, auxVars>>
    \/ \E f \in StoreFiles, id \in NotebookKeys, ok \in BOOLEAN :
          SaveFile(f, id, ok) /\ UNCHANGED <<dashNotebooks, modalVars, pageVars, lastCall, auxVars>>
    \/ \E id \in NotebookKeys :
          /\ nextMsgId <= MaxMsgs /\ Len(GetChat(id)) < MaxChat
          /\ AddChatMessage(id, "q", TRUE, {}, TRUE)
          /\ UNCHANGED <<dashNotebooks, modalVars, pageVars, lastCall, auxVars>>
    \/ \E v \in SettingsValues, wok \in BOOLEAN :
          SaveSettings(v, wok) /\ UNCHANGED <<dashNotebooks, modalVars, pageVars, lastCall, auxVars>>
    \/ \E ok \in BOOLEAN :
          ClearAllData(ok) /\ UNCHANGED <<dashNotebooks, modalVars, pageVars, lastCall, auxVars>>

SpecReset == Init /\ [][NextReset]_vars

\* the dashboard over a store that callers fill with notebooks, files and chats
NextDash ==
    \/ \E ok \in BOOLEAN : CreateNotebook("t", 0, ok) /\ UNCHANGED <<dashNotebooks, modalVars, pageVars, lastCall, auxVars>>
    \/ \E f \in StoreFiles, id \in NotebookKeys, ok \in BOOLEAN :
          SaveFile(f, id, ok) /\ UNCHANGED <<dashNotebooks, modalVars, pageVars, lastCall, auxVars>>
    \/ \E id \in NotebookKeys :
          /\ nextMsgId <= MaxMsgs /\ Len(GetChat(id)) < MaxChat
          /\ AddChatMessage(id, "q", TRUE, {}, TRUE)
          /\ UNCHANGED <<dashNotebooks, modalVars, pageVars, lastCall, auxVars>>
    \/ LoadNotebooks /\ UNCHANGED <<modalVars, pageVars, lastCall, auxVars>>
    \/ \E id \in Ids, ok \in BOOLEAN : HandleDeleteNotebook(id, ok)
          /\ UNCHANGED <<modalVars, pageVars, lastCall, auxVars>>

SpecDash == Init /\ [][NextDash]_vars

\* the notebook page over the store; a message is sent while ids are left for
\* it and for the replies still to come
NextPage ==
    \/ \E ok \in BOOLEAN :
          CreateNotebook("t", 0, ok) /\ UNCHANGED <<dashNotebooks, modalVars, pageVars, lastCall, auxVars>>
    \/ LoadNotebook /\ UNCHANGED <<dashNotebooks, modalVars, lastCall, auxVars>>
    \/ LoadChat /\ UNCHANGED <<dashNotebooks, modalVars, lastCall, auxVars>>
    \/ \E viaEnter \in BOOLEAN, wok \in BOOLEAN :
          /\ nextMsgId + Len(sendRuns) + 1 <= 2 * MaxExchanges
          /\ HandleSendMessage("q", viaEnter, wok)
          /\ UNCHANGED <<dashNotebooks, modalVars, lastCall, auxVars>>
    \/ \E r \in DOMAIN sendRuns, reply \in ChatReplies, wok \in BOOLEAN :
          HandleSendMessageRespond(r, reply, wok) /\ UNCHANGED <<dashNotebooks, modalVars, lastCall, auxVars>>

SpecPage == Init /\ [][NextPage]_vars

\* generateChatResponse settles: its promise resolves on every path
SpecPageFair ==
    SpecPage /\ WF_vars(\E r \in DOMAIN sendRuns, reply \in ChatReplies, wok \in BOOLEAN :
                            HandleSendMessageRespond(r, reply, wok)
                            /\ UNCHANGED <<dashNotebooks, modalVars, lastCall, auxVars>>)

\* the chat log of the page's notebook as earlier sessions left it: no message,
\* or MaxPrior - 2 or MaxPrior messages, questions and answers in turn
PriorLog(k) ==
    [i \in 1..k |-> NewChatMessage(0 - i, IF i % 2 = 1 THEN "q" ELSE "r", i % 2 = 1, {}, 0)]

\* the page mounted on a notebook with a chat log: the effect has run loadChat,
\* which settles before loadNotebook does
InitHistory ==
    /\ \E k \in {0, MaxPrior - 2, MaxPrior} :
          /\ chats = (PageId :> PriorLog(k))
          /\ messages = PriorLog(k)
    /\ idbEnv = "ok"
    /\ db = TRUE
    /\ notebooks = (PageId :> NewNotebook(PageId, "t", 0, 0))
    /\ files = << >>
    /\ settings = "{}"
    /\ now = 0
    /\ nextId = 2
    /\ nextMsgId = 1
    /\ last = NoOp
    /\ dashNotebooks = <<>>
    /\ uploadedFiles = <<>>
    /\ isProcessing = FALSE
    /\ step = "upload"
    /\ notebookTitle = ""
    /\ processRuns = <<>>
    /\ commitRuns = <<>>
    /\ nextFileId = 1
    /\ lastCommit = NoCommit
    /\ notebook = 0
    /\ isGeneratingResponse = FALSE
    /\ sendRuns = <<>>
    /\ notebookSources = {}
    /\ selectedSources = {}
    /\ lastCall = NoCall
    /\ fileOwner = << >>
    /\ addRuns = {}
    /\ heldNotebooks = << >>

\* the page as the only writer of a log that may be longer than the history
NextHistory ==
    \/ LoadNotebook /\ UNCHANGED <<dashNotebooks, modalVars, lastCall, auxVars>>
    \/ LoadChat /\ UNCHANGED <<dashNotebooks, modalVars, lastCall, auxVars>>
    \/ \E viaEnter \in BOOLEAN, wok \in BOOLEAN :
          /\ nextMsgId + Len(sendRuns) + 1 <= 2 * MaxExchanges
          /\ HandleSendMessage("q", viaEnter, wok)
          /\ UNCHANGED <<dashNotebooks, modalVars, lastCall, auxVars>>
    \/ \E r \in DOMAIN sendRuns, reply \in ChatReplies, wok \in BOOLEAN :
          HandleSendMessageRespond(r, reply, wok) /\ UNCHANGED <<dashNotebooks, modalVars, lastCall, auxVars>>

SpecHistory == InitHistory /\ [][NextHistory]_vars

\* the notebook page of a notebook with Source Files, whose selection the user
\* may change
NextPageSources ==
    \/ NextPage
    \/ \E f \in StoreFiles, ok \in BOOLEAN :
          SaveFile(f, PageId, ok) /\ UNCHANGED <<dashNotebooks, modalVars, pageVars, lastCall, auxVars>>
    \/ \E sourceId \in FileIds :
          ToggleSourceSelection(sourceId) /\ UNCHANGED <<dashNotebooks, modalVars, lastCall, auxVars>>

SpecPageSources == Init /\ [][NextPageSources]_vars

\* the summarizers, called with any content and any behaviour of the remote call
NextSummary ==
    \/ \E content \in SummaryContents, remote \in RemoteResponses :
          CallGenerateSourceSummary(content, remote)
    \/ \E content \in SummaryContents, remote \in RemoteResponses :
          CallGenerateFileSummary(content, remote)
    \/ \E srcFiles \in SUBSET (StoreFiles \cup RenamedFiles), reply \in ChatReplies :
          CallGenerateChatResponse(srcFiles, reply)

SpecSummary == Init /\ [][NextSummary]_vars

\* processFile, called with any file and any behaviour of the extractor
NextProcess ==
    \E file \in DispatchFiles, ioOk \in BOOLEAN, content \in FileContents :
        CallProcessFile(file, ioOk, content)

SpecProcess == Init /\ [][NextProcess]_vars

\* files picked in the upload flow: one supported, one not
PickedFiles == {f \in RawFiles : f.ext \in {"txt", "xyz"}}

\* the upload flow in a browser whose IndexedDB opens
InitUpload == Init /\ idbEnv = "ok"

\* the ingestion half of the upload modal: the store is not called
NextIngest ==
    \/ \E f \in PickedFiles : AddFiles(f) /\ UNCHANGED <<storeVars, dashNotebooks, pageVars, lastCall, auxVars>>
    \/ \E i \in 1..MaxFiles : RemoveFile(i) /\ UNCHANGED <<storeVars, dashNotebooks, pageVars, lastCall, auxVars>>
    \/ Continue /\ UNCHANGED <<storeVars, dashNotebooks, pageVars, lastCall, auxVars>>
    \/ BackToUpload /\ UNCHANGED <<storeVars, dashNotebooks, pageVars, lastCall, auxVars>>
    \/ \E t \in ModalTitles : SetNotebookTitle(t) /\ UNCHANGED <<storeVars, dashNotebooks, pageVars, lastCall, auxVars>>
    \/ ProcessFilesStart /\ UNCHANGED <<storeVars, dashNotebooks, pageVars, lastCall, auxVars>>
    \/ \E r \in DOMAIN processRuns :
          ProcessFilesProgress(r) /\ UNCHANGED <<storeVars, dashNotebooks, pageVars, lastCall, auxVars>>
    \/ \E r \in DOMAIN processRuns, ioOk \in BOOLEAN, content \in FileContents :
          ProcessFilesExtract(r, ioOk, content) /\ UNCHANGED <<storeVars, dashNotebooks, pageVars, lastCall, auxVars>>
    \/ \E r \in DOMAIN processRuns, remote \in RemoteOutcomes :
          ProcessFilesSummarize(r, remote) /\ UNCHANGED <<storeVars, dashNotebooks, pageVars, lastCall, auxVars>>

SpecIngest == InitUpload /\ [][NextIngest]_vars

\* the upload modal over the store: a text file that is read and an unsupported
\* one, summarized by the short-content path
NextUpload ==
    \/ \E f \in PickedFiles : AddFiles(f) /\ UNCHANGED <<storeVars, dashNotebooks, pageVars, lastCall, auxVars>>
    \/ \E i \in 1..MaxFiles : RemoveFile(i) /\ UNCHANGED <<storeVars, dashNotebooks, pageVars, lastCall, auxVars>>
    \/ Continue /\ UNCHANGED <<storeVars, dashNotebooks, pageVars, lastCall, auxVars>>
    \/ BackToUpload /\ UNCHANGED <<storeVars, dashNotebooks, pageVars, lastCall, auxVars>>
    \/ SetNotebookTitle("n") /\ UNCHANGED <<storeVars, dashNotebooks, pageVars, lastCall, auxVars>>
    \/ ProcessFilesStart /\ UNCHANGED <<storeVars, dashNotebooks, pageVars, lastCall, auxVars>>
    \/ \E r \in DOMAIN processRuns :
          ProcessFilesProgress(r) /\ UNCHANGED <<storeVars, dashNotebooks, pageVars, lastCall, auxVars>>
    \/ \E r \in DOMAIN processRuns :
          ProcessFilesExtract(r, TRUE, [len |-> 50, trimLen |-> 50]) /\ UNCHANGED <<storeVars, dashNotebooks, pageVars, lastCall, auxVars>>
    \/ \E r \in DOMAIN processRuns :
          ProcessFilesSummarize(r, RemoteFailure) /\ UNCHANGED <<storeVars, dashNotebooks, pageVars, lastCall, auxVars>>
    \/ CommitStart /\ UNCHANGED <<storeVars, dashNotebooks, pageVars, lastCall, auxVars>>
    \/ \E r \in DOMAIN commitRuns, ok \in BOOLEAN :
          CommitCreateNotebook(r, 0, ok) /\ UNCHANGED <<pageVars, lastCall, auxVars>>
    \/ \E r \in DOMAIN commitRuns, ok \in BOOLEAN :
          CommitSaveFile(r, ok) /\ UNCHANGED <<pageVars, lastCall, auxVars>>
    \/ \E r \in DOMAIN commitRuns, ok \in BOOLEAN :
          CommitUpdateNotebook(r, ok) /\ UNCHANGED <<pageVars, lastCall, auxVars>>

SpecUpload == InitUpload /\ [][NextUpload]_vars

\* ------------------------------------------------------------ properties

\* C1 (as claimed): after deleteNotebook(id) has resolved on a stored notebook,
\* no Source File owned by id and no chat list keyed by id remains
C1_CascadeDelete ==
    (last.op = "deleteNotebook" /\ last.res = "resolved" /\ last.hit)
        => (GetFilesByNotebook(last.id) = {} /\ GetChat(last.id) = <<>>)

\* C2 (as claimed): createNotebook(title) followed by getNotebook(id) yields a
\* record with the same id and title, no sources and updatedAt >= createdAt
C2_RoundTripAlways ==
    (last.op = "createNotebook" /\ last.res = "resolved")
        => LET r == GetNotebook(last.id) IN
           /\ r.id = last.nb.id
           /\ r.title = last.title
           /\ r.sources = <<>>
           /\ r.updatedAt >= r.createdAt

\* C2 (amended): the round trip holds when the indexed store can be opened
C2_RoundTrip ==
    (last.op = "createNotebook" /\ last.res = "resolved" /\ idbEnv = "ok")
        => LET r == GetNotebook(last.id) IN
           /\ r # NullNotebook
           /\ r.id = last.nb.id
           /\ r.title = last.title
           /\ r.sources = <<>>
           /\ r.updatedAt >= r.createdAt

C2_Witness ==
    /\ last.op = "createNotebook" /\ last.res = "resolved" /\ idbEnv = "ok"
    /\ last.title = "t"
    /\ GetNotebook(last.id).updatedAt > GetNotebook(last.id).createdAt

\* C3: a resolved deleteNotebook(id) leaves getNotebook(id) returning null and
\* every other notebook record as it was
C3_DeleteThenGet ==
    [][\A id \in Ids :
         (last'.op = "deleteNotebook" /\ last'.res = "resolved" /\ last'.id = id)
            => /\ GetNotebook(id)' = NullNotebook
               /\ \A k \in Ids \ {id} : GetNotebook(k)' = GetNotebook(k)]_vars

C3_Witness ==
    /\ last.op = "deleteNotebook" /\ last.res = "resolved" /\ last.hit /\ idbEnv = "ok"
    /\ last.id \notin DOMAIN notebooks
    /\ DOMAIN notebooks # {}

C5_AppendOnlyButClear ==
    [][last'.op # "clearAllData"
         => \A n \in NotebookKeys : IsPrefix(GetChat(n), GetChat(n)')]_vars

\* C5 (amended): but for clearAllData and a direct saveChat, every store
\* operation leaves each notebook's earlier chat list a prefix of its later one
C5_AppendOnly ==
    [][last'.op \notin {"clearAllData", "saveChat"}
         => \A n \in NotebookKeys : IsPrefix(GetChat(n), GetChat(n)')]_vars

C5_Witness ==
    /\ last.op = "addChatMessage" /\ last.hit
    /\ Len(GetChat(last.id)) = 2
    /\ \E n \in NotebookKeys \ {last.id} : Len(GetChat(n)) > 0

\* a user message of the page's chat list has no later assistant message
Unanswered ==
    LET c == GetChat(PageId) IN
    \E i \in 1..Len(c) : c[i].isUser /\ \A j \in (i + 1)..Len(c) : c[j].isUser

\* localStorage has dropped a chat write: fewer messages stored than built
WriteDropped == Len(GetChat(PageId)) < nextMsgId - 1

C7_Terminal ==
    [][\A i \in 1..Len(uploadedFiles) :
         uploadedFiles[i].status \in {"success", "error"}
            => /\ i <= Len(uploadedFiles')
               /\ uploadedFiles'[i].status # "processing"]_vars

\* C8: at most one file is in 'processing', and while a file is in 'processing'
\* every file uploaded before it is in 'success' or 'error'
C8_Sequential ==
    /\ Cardinality({i \in 1..Len(uploadedFiles) : uploadedFiles[i].status = "processing"}) <= 1
    /\ \A j \in 1..Len(uploadedFiles) :
          uploadedFiles[j].status = "processing"
             => \A i \in 1..(j - 1) : uploadedFiles[i].status \in {"success", "error"}

C8_Witness ==
    /\ Len(uploadedFiles) >= 2
    /\ uploadedFiles[2].status = "processing"
    /\ uploadedFiles[2].progress > 0
    /\ uploadedFiles[1].status = "error"

\* C9: a file leaves 'processing' for 'success' when processFile had succeeded
\* and generateFileSummary returns, whatever the remote call did, and otherwise
\* for 'error' when processFile returns a failure, whose message becomes the
\* entry's error
C9_Transitions ==
    [][\A i \in 1..Len(uploadedFiles) :
         (/\ i <= Len(uploadedFiles')
          /\ uploadedFiles[i].status = "processing"
          /\ uploadedFiles'[i].status # "processing")
            => \E r \in DOMAIN processRuns :
                 LET run == processRuns[r] IN
                 /\ run.i = i
                 /\ \/ /\ run.pc = "summarize"
                       /\ run.result.success
                       /\ uploadedFiles'[i].status = "success"
                       /\ uploadedFiles'[i].processedFile.id = run.result.file.id
                    \/ /\ run.pc = "extract"
                       /\ uploadedFiles'[i].status = "error"
                       /\ \E ioOk \in BOOLEAN, content \in FileContents :
                             LET result == ProcessFile(run.uploadedFiles[i].file, nextFileId,
                                                       ioOk, content) IN
                             /\ ~result.success
                             /\ uploadedFiles'[i].error = result.error]_vars

C9_Witness ==
    \E i, j \in 1..Len(uploadedFiles) :
        /\ uploadedFiles[i].status = "success"
        /\ uploadedFiles[i].processedFile.summary.text = "remote-error"
        /\ uploadedFiles[j].status = "error"
        /\ uploadedFiles[j].error = [kind |-> "text", name |-> [stem |-> "", ext |-> ""]]

\* what getFilesByNotebook(nid) returns over the records fs of an open store
OwnedFiles(fs, nid) == {fs[f] : f \in {g \in DOMAIN fs : fs[g].notebookId = nid}}

\* C10 (as claimed): when the modal's createNotebook() completes,
\* getFilesByNotebook(newId) returns exactly the processed files of the entries
\* that were in 'success'
C10_CommitPersists ==
    [][(lastCommit' # lastCommit /\ lastCommit'.res = "done")
         => OwnedFiles(files', lastCommit'.nb) =
               {WithNotebookId(f, lastCommit'.nb) : f \in lastCommit'.files}]_vars

\* C11 (as claimed): once no createNotebook() call of the modal is in flight,
\* every notebook record in the store has at least one Source File stored for it
C11_CommittedHasSource ==
    commitRuns = <<>> => \A k \in DOMAIN notebooks : OwnedFiles(files, k) # {}

\* C12: a file that matches no supported format leaves 'processing' for
\* 'error', and the entry's error is processFile's unsupported-format message
\* with the file's name
C12_Unsupported ==
    [][\A i \in 1..Len(uploadedFiles) :
         (/\ i <= Len(uploadedFiles')
          /\ uploadedFiles[i].status = "processing"
          /\ uploadedFiles'[i].status # "processing"
          /\ uploadedFiles[i].file.ext = "xyz" /\ uploadedFiles[i].file.type = "")
            => /\ \A ioOk \in BOOLEAN, content \in FileContents :
                     ~ProcessFile(uploadedFiles[i].file, nextFileId, ioOk, content).success
               /\ uploadedFiles'[i].status = "error"
               /\ uploadedFiles'[i].error =
                     [kind |-> "unsupported", name |-> FileName(uploadedFiles[i].file)]]_vars

C12_Witness ==
    \E i \in 1..Len(uploadedFiles) :
        /\ uploadedFiles[i].file.ext = "xyz"
        /\ uploadedFiles[i].status = "error"
        /\ uploadedFiles[i].error.name = [stem |-> "a", ext |-> "xyz"]
        /\ step = "complete"

\* C13: every entry in 'success' carries a processed file with a summary and
\* with isProcessing false, so every file the modal's createNotebook() would
\* pass to saveFile has a summary
C13_SummaryDefined ==
    /\ \A i \in 1..Len(uploadedFiles) :
          uploadedFiles[i].status = "success"
             => /\ uploadedFiles[i].processedFile # NoFile
                /\ uploadedFiles[i].processedFile.summary.text # NoSummary.text
                /\ ~uploadedFiles[i].processedFile.isProcessing
    /\ \A f \in Range(SuccessfulFiles(uploadedFiles)) :
          f.summary # NoSummary /\ ~f.isProcessing

C13_Witness ==
    \E i, j \in 1..Len(uploadedFiles) :
        /\ uploadedFiles[i].status = "success"
        /\ uploadedFiles[i].processedFile.summary.text = "file-too-short"
        /\ uploadedFiles[j].status = "success"
        /\ uploadedFiles[j].processedFile.summary.text = "remote-error"

\* C14 (as claimed): whatever the content and whatever the remote call does,
\* the Summary generateSourceSummary returns has a non-empty summary text and
\* at least one key point
C14_SummaryNonEmpty ==
    lastCall.fn = "generateSourceSummary"
        => /\ lastCall.summary.text # ""
           /\ Len(lastCall.summary.keyPoints) >= 1

\* C15 (as claimed): for a content shorter than the threshold of
\* generateFileSummary, either summarizer makes no remote call and returns the
\* one canned short-content Summary
C15_OneThreshold ==
    (lastCall.fn \in {"generateSourceSummary", "generateFileSummary"}
     /\ lastCall.content.len < FileSummaryMinLength)
        => /\ lastCall.remoteCalls = 0
           /\ lastCall.summary.text = "file-too-short"
           /\ lastCall.summary.keyPoints = <<"short-document">>

\* C16: when the remote call fails, generateChatResponse returns the fixed
\* apology with no sources and confidence 0
C16_ChatFailure ==
    (lastCall.fn = "generateChatResponse" /\ ~lastCall.aiOk)
        => lastCall.response = [content |-> Apology, sources |-> {}, confidence |-> 0]

C16_Witness ==
    /\ lastCall.fn = "generateChatResponse"
    /\ ~lastCall.aiOk
    /\ lastCall.response.content = Apology

\* C17 (as claimed): whatever the state of the storage tiers, no Persistence
\* Store operation rejects
C17_NeverRejects == last.res # "rejected"

\* C18: what getAllNotebooks returns holds every stored notebook exactly once,
\* in descending order of updatedAt
C18_AllSortedDesc ==
    (last.op = "getAllNotebooks" /\ last.res = "resolved")
        => /\ Len(last.list) = Cardinality(DOMAIN notebooks)
           /\ \A k \in DOMAIN notebooks : \E i \in 1..Len(last.list) : last.list[i] = notebooks[k]
           /\ \A i \in 1..(Len(last.list) - 1) :
                 last.list[i].updatedAt >= last.list[i + 1].updatedAt

C18_Witness ==
    /\ last.op = "getAllNotebooks" /\ last.res = "resolved"
    /\ Len(last.list) = 2
    /\ last.list[1].id > last.list[2].id
    /\ last.list[1].updatedAt > last.list[2].updatedAt

\* C19: a getAllNotebooks call leaves the store as it was, and a second call
\* with no write in between returns the same records in the same order
C19_ReadIdempotent ==
    [][/\ last'.op = "getAllNotebooks"
           => UNCHANGED <<notebooks, files, chats, settings>>
       /\ (last.op = "getAllNotebooks" /\ last.res = "resolved"
           /\ last'.op = "getAllNotebooks" /\ last'.res = "resolved")
           => last'.list = last.list]_vars

C19_Witness ==
    /\ last.op = "getAllNotebooks" /\ last.res = "resolved"
    /\ last.again
    /\ Len(last.list) = 2
    /\ last.list[1].updatedAt > last.list[2].updatedAt

\* C20: every stored notebook has updatedAt >= createdAt, and an
\* updateNotebook call that resolves leaves the stored record of that id with
\* updatedAt equal to the time of the call, not lower than the value stored
\* before, and with the id and createdAt it had
C20_UpdateStamps ==
    /\ [](\A k \in DOMAIN notebooks : notebooks[k].updatedAt >= notebooks[k].createdAt)
    /\ [][(last'.op = "updateNotebook" /\ last'.res = "resolved" /\ now' = now
           /\ last'.id \in DOMAIN notebooks')
           => LET id == last'.id IN
              /\ notebooks'[id].updatedAt = now
              /\ notebooks'[id].id = id
              /\ id \in DOMAIN notebooks
                    => /\ notebooks'[id].updatedAt >= notebooks[id].updatedAt
                       /\ notebooks'[id].createdAt = notebooks[id].createdAt
                       /\ notebooks'[id].id = notebooks[id].id]_vars

C20_Witness ==
    /\ last.op = "updateNotebook" /\ last.res = "resolved"
    /\ last.id \in DOMAIN notebooks
    /\ notebooks[last.id].updatedAt = now
    /\ notebooks[last.id].createdAt < now
    /\ notebooks[last.id].title # "t"

\* what C21 says of a resolved getFilesByNotebook(n): the records returned are
\* those of the file ids whose last resolved saveFile named n, one per id
ReturnsFilesOwnedBy ==
    (last.op = "getFilesByNotebook" /\ last.res = "resolved")
        => /\ {f.id : f \in last.files} = {i \in DOMAIN fileOwner : fileOwner[i] = last.id}
           /\ Cardinality(last.files) = Cardinality({f.id : f \in last.files})
           /\ \A f \in last.files : f.notebookId = last.id /\ files[f.id] = f

\* what C21 says of saveFile(f, n): no record of another id changes
SaveFileFrame ==
    \A f \in StoreFiles \cup RenamedFiles, n \in NotebookKeys, ok \in BOOLEAN :
        SaveFile(f, n, ok)
            => \A k \in DOMAIN files \ {f.id} : k \in DOMAIN files' /\ files'[k] = files[k]

\* C21 (as claimed): getFilesByNotebook(n) returns exactly the files whose most
\* recent saveFile named n, each once, and saveFile(f, n) changes no other record
C21_FilesByOwnerAlways == []ReturnsFilesOwnedBy /\ [][SaveFileFrame]_vars

\* C21 (amended): the same, when the indexed store can be opened
C21_FilesByOwner == [](idbEnv = "ok" => ReturnsFilesOwnedBy) /\ [][SaveFileFrame]_vars

C21_Witness ==
    /\ idbEnv = "ok"
    /\ last.op = "getFilesByNotebook" /\ last.res = "resolved" /\ last.id = 2
    /\ Cardinality(last.files) = 1
    /\ Cardinality(DOMAIN files) = 2
    /\ \A i \in DOMAIN fileOwner : fileOwner[i] = 2 <=> i = 1

\* C22: after a clearAllData that resolved, getAllNotebooks returns no
\* notebook, getFilesByNotebook and getChat return nothing for any notebook id
\* and the settings are the empty object; when the indexed store could not be
\* opened at the call, the flat store is cleared all the same
C22_AllCleared ==
    /\ (last.op = "clearAllData" /\ last.res = "resolved")
          => /\ GetAllNotebooks = <<>>
             /\ \A n \in NotebookKeys : GetFilesByNotebook(n) = {} /\ GetChat(n) = <<>>
             /\ settings = "{}"
    /\ (last.op = "clearAllData" /\ ~DbOpen)
          => /\ chats = << >> /\ settings = "{}"
             /\ notebooks = << >> /\ files = << >>

C22_Witness ==
    /\ last.op = "clearAllData" /\ last.res = "resolved" /\ last.hit
    /\ nextId > 1 /\ nextMsgId > 1
    /\ GetAllNotebooks = <<>>

\* C23 (as claimed): every entry of the sources of a persisted assistant
\* message is the id of a Source File of the notebook
C23_SourcesAreFileIds ==
    \A i \in 1..Len(GetChat(PageId)) :
        ~GetChat(PageId)[i].isUser
            => GetChat(PageId)[i].sources
                   \subseteq {IdString(f.id) : f \in OwnedFiles(files, PageId)}

\* the set of the messages of a list
Msgs(list) == {list[i] : i \in 1..Len(list)}

\* what C24 says of the write of an addChatMessage call r: if the list stored is
\* still the one r read, the new list is that list with r's message appended;
\* if another call wrote the list in between, the messages it added are not in
\* the new list, which is the list r read with r's message appended
WriteOutcome(r) ==
    /\ GetChat(r.nid) = r.existingMessages
          => GetChat(r.nid)' = Append(GetChat(r.nid), r.chatMessage)
    /\ GetChat(r.nid) # r.existingMessages
          => /\ Msgs(GetChat(r.nid)') \cap (Msgs(GetChat(r.nid)) \ Msgs(r.existingMessages)) = {}
             /\ GetChat(r.nid)' = Append(r.existingMessages, r.chatMessage)

\* C24 (as claimed): an addChatMessage that overlaps another on the same
\* notebook loses the other's message, one that does not overlap keeps all
C24_LostUpdateAlways ==
    [][\A r \in addRuns \ addRuns' : r.pc = "write" => WriteOutcome(r)]_vars

\* C24 (amended): the same, for a write that localStorage does not drop
C24_LostUpdate ==
    [][\A r \in addRuns \ addRuns' : (r.pc = "write" /\ last'.hit) => WriteOutcome(r)]_vars

C24_Witness ==
    /\ addRuns = {}
    /\ last.op = "addChatMessage" /\ last.hit
    /\ Len(last.before) = 1
    /\ last.before[1] # last.msg
    /\ GetChat(last.id) = <<last.msg>>

\* C28 (as claimed): a write of addChatMessage or saveChat for notebook n leaves
\* the chat list of every other notebook and the settings as they were
C28_OtherChatsUnchanged ==
    [][(last'.op \in {"addChatMessage", "saveChat"} /\ chats' # chats)
          => /\ \A n \in NotebookKeys \ {last'.id} : GetChat(n)' = GetChat(n)
             /\ settings' = settings]_vars

\* C25: processFile takes the first branch, in the order PDF, DOCX, HWPX, plain
\* text, whose test the file passes, and fails as unsupported when it passes
\* none; it returns either the whole text of the extractor or a failure, never
\* both
C25_FirstMatch ==
    lastCall.fn = "processFile"
        => LET tests == BranchTests(lastCall.file)
               hits == {i \in 1..Len(tests) : tests[i].passes}
               res == lastCall.result
           IN /\ hits # {} => \A i \in hits : (\A j \in hits : i <= j)
                                                 => lastCall.branch = tests[i].branch
              /\ hits = {} => lastCall.branch = "unsupported" /\ ~res.success
              /\ lastCall.file.ext = "pdf" => lastCall.branch = "pdf"
              /\ (lastCall.file.type \in TextTypes
                  /\ lastCall.file.ext \notin {"pdf", "docx", "hwpx"})
                    => lastCall.branch = "text"
              /\ res.success => /\ res.error = NoError
                                /\ res.file.content = lastCall.content
                                /\ res.file.name = FileName(lastCall.file)
              /\ ~res.success => res.file = NoFile /\ res.error # NoError
              /\ res.success <=> (hits # {} /\ (lastCall.ioOk \/ lastCall.branch = "hwpx"))

C25_Witness ==
    /\ lastCall.fn = "processFile"
    /\ lastCall.file.ext = "pdf" /\ lastCall.file.type = "text/plain"
    /\ lastCall.branch = "pdf"
    /\ lastCall.result.success

\* localStorage has dropped a chat write of the page: a message built is not
\* in the log
PageWriteDropped ==
    \E i \in 1..(nextMsgId - 1) :
        \A j \in 1..Len(GetChat(PageId)) : GetChat(PageId)[j].id # i

C27_SourceIdIsFileId ==
    lastCall.fn = "generateFileSummary" => lastCall.summary.sourceId = IdString(1)

\* the chat list c is user, assistant, user, assistant, ...
Alternates(c) == \A i \in 1..Len(c) : c[i].isUser = (i % 2 = 1)

\* C29: at most one chat exchange is in flight per page, no handleSendMessage
\* call starts while isGeneratingResponse is set, and so the log strictly
\* alternates user and assistant messages.  As stated this fails: handleKeyPress
\* calls handleSendMessage on Enter whatever isGeneratingResponse holds.
C29_OneExchangeInFlight ==
    /\ Len(sendRuns) <= 1
    /\ ~WriteDropped => Alternates(GetChat(PageId))

\* C30 (as claimed): updateNotebook is an unconditional upsert: a resolved
\* updateNotebook(r) leaves getNotebook(r.id) returning r, also when no record
\* of r.id is stored (after deleteNotebook(r.id)), and a deleteNotebook or
\* updateNotebook whose request succeeds resolves whether or not the id is stored
C30_UpsertAlways ==
    [][/\ \A id \in Ids :
             (CallUpdateNotebook(id, TRUE) /\ last'.res = "resolved")
                 => GetNotebook(id)' = heldNotebooks'[id]
       /\ \A id \in Ids :
             (DeleteNotebook(id, TRUE) /\ ~InitRejects) => last'.res = "resolved"]_vars

\* C30 (amended): the same, for the upsert when the indexed store is open; when
\* it is absent updateNotebook resolves and stores nothing
C30_Upsert ==
    [][/\ \A id \in Ids :
             (CallUpdateNotebook(id, TRUE) /\ last'.res = "resolved")
                 => /\ idbEnv = "ok" => /\ GetNotebook(id)' = heldNotebooks'[id]
                                        /\ GetNotebook(id)'.updatedAt = now
                    /\ idbEnv # "ok" => GetNotebook(id)' = NullNotebook
                    /\ \A k \in Ids \ {id} : GetNotebook(k)' = GetNotebook(k)
       /\ \A id \in Ids :
             (CallUpdateNotebook(id, TRUE) /\ ~InitRejects) => last'.res = "resolved"
       /\ \A id \in Ids :
             (DeleteNotebook(id, TRUE) /\ ~InitRejects) => last'.res = "resolved"]_vars

\* a record that was stored and deleted is stored again by updateNotebook
C30_Witness ==
    /\ idbEnv = "ok"
    /\ last.op = "updateNotebook" /\ last.res = "resolved" /\ last.missing
    /\ GetNotebook(last.id) = last.nb
    /\ last.nb = heldNotebooks[last.id]
    /\ last.nb.updatedAt > last.nb.createdAt

====
